---------------------------- MODULE Spec2Model ----------------------------
(***************************************************************************)
(* The persistent schema of app/models.py, as the relational store that    *)
(* its SQLModel table classes declare.                                     *)
(*                                                                         *)
(* Each table is a sequence of rows; the auto-incrementing primary key of  *)
(* a row is its position (rows are never deleted: the source defines no    *)
(* deletion).  A row carries the columns of its class that bear a          *)
(* constraint, a relationship, an enumerated type, a numeric scale, a      *)
(* documented range or a timestamp default.  NULL is 0 in a foreign key    *)
(* column, "None" in a text or date column and the empty sequence << >> in *)
(* a Decimal column.  A column whose annotation is not Optional[...] is    *)
(* declared NOT NULL.  Integer columns other than foreign keys, and        *)
(* timestamps, hold integers only: the model has no NULL for them.         *)
(*                                                                         *)
(* XxxOk(r, self) is what the column declarations of class Xxx make the    *)
(* store check for a row r that is to sit at primary key self (self = 0:   *)
(* a new row).  An INSERT or UPDATE whose row does not pass is rejected by *)
(* the store with an integrity or data error and leaves every table as it  *)
(* was: the action is not enabled.                                         *)
(***************************************************************************)
EXTENDS Integers, Sequences, FiniteSets, TLC

VARIABLES users, jurusan, kelas, guru, siswa,
          jenis_prestasi, jenis_pelanggaran, input_prestasi, input_pelanggaran,
          manajemen_sanksi, jadwal_mengajar, izin_guru,
          attendance_guru, attendance_siswa, school_settings,
          now

vars == <<users, jurusan, kelas, guru, siswa,
          jenis_prestasi, jenis_pelanggaran, input_prestasi, input_pelanggaran,
          manajemen_sanksi, jadwal_mengajar, izin_guru,
          attendance_guru, attendance_siswa, school_settings, now>>

(***************************************************************************)
(* Bounds of the exploration.                                              *)
(***************************************************************************)
\* rows one table may hold
MaxRows == 2
\* rows the whole store may hold
MaxTotalRows == 7
\* ticks of the clock
MaxClock == 1

(***************************************************************************)
(* Enumerated column types.                                                *)
(***************************************************************************)
UserRole == {"admin", "guru", "siswa"}

LeaveStatus == {"pending", "approved", "rejected"}

SanctionStatus == {"pending", "in_process", "sanctioned", "not_sanctioned"}

AttendanceStatus == {"present", "absent", "late", "sick", "excused"}

(***************************************************************************)
(* A decimal.Decimal as the client writes it: coef * 10^(-places).  A      *)
(* Decimal column holds the value written.  What a store returns when the  *)
(* column is read back is the conversion of the engine and its driver,     *)
(* which the schema does not contain; it is not modelled, and nothing      *)
(* below depends on the digits of a stored Decimal.                        *)
(***************************************************************************)
Dec(c, p) == [coef |-> c, places |-> p]

(***************************************************************************)
(* Constraint helpers.                                                     *)
(***************************************************************************)
Ids(table) == 1..Len(table)

\* ForeignKey with the reference left out of the column declaration
NoForeignKey(id, table) == id # 0

\* Field(foreign_key = ...) on a required column: NOT NULL and REFERENCES
ForeignKey(id, table) == id \in Ids(table)

\* Field(default = None, foreign_key = ...): NULL or REFERENCES
OptionalForeignKey(id, table) == id = 0 \/ id \in Ids(table)

\* a column annotated str or date, not Optional[...]: NOT NULL
NotNull(v) == v # "None"

\* a column annotated Decimal, not Optional[Decimal]: NOT NULL
NotNullDecimal(v) == v # << >>

\* Unique with the constraint left out of the column declaration
NotUnique(table, col, val, self) == TRUE

\* Field(unique = True): no other row of the table holds the value
Unique(table, col, val, self) ==
    \A i \in Ids(table) : i # self => table[i][col] # val

\* Field(default_factory = datetime.utcnow) on created_at and updated_at:
\* both are filled in when the object is constructed for the INSERT
Stamped(r) == r @@ [created_at |-> now, updated_at |-> now]

\* In-place mutation of the attributes in r followed by a commit: an UPDATE
\* that sets those columns.  No column declares an onupdate, so every other
\* column, the timestamps included, keeps its value.
Mutate(old, r) == [f \in DOMAIN old |-> IF f \in DOMAIN r THEN r[f] ELSE old[f]]

(***************************************************************************)
(* users                                                                   *)
(***************************************************************************)
UserOk(r, self) ==
    /\ NotNull(r.username)
    /\ NotNull(r.email)
    /\ Unique(users, "username", r.username, self)
    /\ Unique(users, "email", r.email, self)
    /\ r.role \in UserRole

InsertUser(r) ==
    /\ UserOk(r, 0)
    /\ users' = Append(users, Stamped(r))
    /\ UNCHANGED <<jurusan, kelas, guru, siswa, jenis_prestasi, jenis_pelanggaran,
                   input_prestasi, input_pelanggaran, manajemen_sanksi,
                   jadwal_mengajar, izin_guru, attendance_guru, attendance_siswa,
                   school_settings, now>>

UpdateUser(id, r) ==
    /\ id \in Ids(users)
    /\ UserOk(Mutate(users[id], r), id)
    /\ users' = [users EXCEPT ![id] = Mutate(@, r)]
    /\ UNCHANGED <<jurusan, kelas, guru, siswa, jenis_prestasi, jenis_pelanggaran,
                   input_prestasi, input_pelanggaran, manajemen_sanksi,
                   jadwal_mengajar, izin_guru, attendance_guru, attendance_siswa,
                   school_settings, now>>

(***************************************************************************)
(* jurusan                                                                 *)
(***************************************************************************)
JurusanOk(r, self) ==
    /\ NotNull(r.name)
    /\ NotNull(r.code)
    /\ Unique(jurusan, "code", r.code, self)

InsertJurusan(r) ==
    /\ JurusanOk(r, 0)
    /\ jurusan' = Append(jurusan, r)
    /\ UNCHANGED <<users, kelas, guru, siswa, jenis_prestasi, jenis_pelanggaran,
                   input_prestasi, input_pelanggaran, manajemen_sanksi,
                   jadwal_mengajar, izin_guru, attendance_guru, attendance_siswa,
                   school_settings, now>>

UpdateJurusan(id, r) ==
    /\ id \in Ids(jurusan)
    /\ JurusanOk(Mutate(jurusan[id], r), id)
    /\ jurusan' = [jurusan EXCEPT ![id] = Mutate(@, r)]
    /\ UNCHANGED <<users, kelas, guru, siswa, jenis_prestasi, jenis_pelanggaran,
                   input_prestasi, input_pelanggaran, manajemen_sanksi,
                   jadwal_mengajar, izin_guru, attendance_guru, attendance_siswa,
                   school_settings, now>>

(***************************************************************************)
(* kelas                                                                   *)
(***************************************************************************)
KelasOk(r, self) ==
    /\ NotNull(r.name)
    /\ ForeignKey(r.jurusan_id, jurusan)
    /\ OptionalForeignKey(r.wali_kelas_id, guru)

InsertKelas(r) ==
    /\ KelasOk(r, 0)
    /\ kelas' = Append(kelas, r)
    /\ UNCHANGED <<users, jurusan, guru, siswa, jenis_prestasi, jenis_pelanggaran,
                   input_prestasi, input_pelanggaran, manajemen_sanksi,
                   jadwal_mengajar, izin_guru, attendance_guru, attendance_siswa,
                   school_settings, now>>

UpdateKelas(id, r) ==
    /\ id \in Ids(kelas)
    /\ KelasOk(Mutate(kelas[id], r), id)
    /\ kelas' = [kelas EXCEPT ![id] = Mutate(@, r)]
    /\ UNCHANGED <<users, jurusan, guru, siswa, jenis_prestasi, jenis_pelanggaran,
                   input_prestasi, input_pelanggaran, manajemen_sanksi,
                   jadwal_mengajar, izin_guru, attendance_guru, attendance_siswa,
                   school_settings, now>>

\* Kelas.jurusan: the relationship loads the Jurusan row of jurusan_id
KelasJurusan(id) == jurusan[kelas[id].jurusan_id]

(***************************************************************************)
(* guru                                                                    *)
(***************************************************************************)
\* GuruOk with user_id declared without unique = True
GuruOkSharedUser(r, self) ==
    /\ ForeignKey(r.user_id, users)
    /\ NotNull(r.nip)
    /\ Unique(guru, "nip", r.nip, self)

GuruOk(r, self) ==
    /\ ForeignKey(r.user_id, users)
    /\ Unique(guru, "user_id", r.user_id, self)
    /\ NotNull(r.nip)
    /\ Unique(guru, "nip", r.nip, self)

InsertGuru(r) ==
    /\ GuruOk(r, 0)
    /\ guru' = Append(guru, Stamped(r))
    /\ UNCHANGED <<users, jurusan, kelas, siswa, jenis_prestasi, jenis_pelanggaran,
                   input_prestasi, input_pelanggaran, manajemen_sanksi,
                   jadwal_mengajar, izin_guru, attendance_guru, attendance_siswa,
                   school_settings, now>>

UpdateGuru(id, r) ==
    /\ id \in Ids(guru)
    /\ GuruOk(Mutate(guru[id], r), id)
    /\ guru' = [guru EXCEPT ![id] = Mutate(@, r)]
    /\ UNCHANGED <<users, jurusan, kelas, siswa, jenis_prestasi, jenis_pelanggaran,
                   input_prestasi, input_pelanggaran, manajemen_sanksi,
                   jadwal_mengajar, izin_guru, attendance_guru, attendance_siswa,
                   school_settings, now>>

(***************************************************************************)
(* siswa                                                                   *)
(***************************************************************************)
SiswaOk(r, self) ==
    /\ ForeignKey(r.user_id, users)
    /\ Unique(siswa, "user_id", r.user_id, self)
    /\ NotNull(r.nis)
    /\ Unique(siswa, "nis", r.nis, self)
    /\ NotNull(r.nisn)
    /\ Unique(siswa, "nisn", r.nisn, self)
    /\ OptionalForeignKey(r.kelas_id, kelas)
    /\ NotNullDecimal(r.current_points)

\* InsertSiswa for accounts of role siswa only
InsertSiswaOfRole(r) ==
    /\ SiswaOk(r, 0)
    /\ users[r.user_id].role = "siswa"
    /\ siswa' = Append(siswa, Stamped(r))
    /\ UNCHANGED <<users, jurusan, kelas, guru, jenis_prestasi, jenis_pelanggaran,
                   input_prestasi, input_pelanggaran, manajemen_sanksi,
                   jadwal_mengajar, izin_guru, attendance_guru, attendance_siswa,
                   school_settings, now>>

InsertSiswa(r) ==
    /\ SiswaOk(r, 0)
    /\ siswa' = Append(siswa, Stamped(r))
    /\ UNCHANGED <<users, jurusan, kelas, guru, jenis_prestasi, jenis_pelanggaran,
                   input_prestasi, input_pelanggaran, manajemen_sanksi,
                   jadwal_mengajar, izin_guru, attendance_guru, attendance_siswa,
                   school_settings, now>>

UpdateSiswa(id, r) ==
    /\ id \in Ids(siswa)
    /\ SiswaOk(Mutate(siswa[id], r), id)
    /\ siswa' = [siswa EXCEPT ![id] = Mutate(@, r)]
    /\ UNCHANGED <<users, jurusan, kelas, guru, jenis_prestasi, jenis_pelanggaran,
                   input_prestasi, input_pelanggaran, manajemen_sanksi,
                   jadwal_mengajar, izin_guru, attendance_guru, attendance_siswa,
                   school_settings, now>>

(***************************************************************************)
(* jenis_prestasi                                                          *)
(***************************************************************************)
JenisPrestasiOk(r, self) ==
    NotNullDecimal(r.points)

InsertJenisPrestasi(r) ==
    /\ JenisPrestasiOk(r, 0)
    /\ jenis_prestasi' = Append(jenis_prestasi, r)
    /\ UNCHANGED <<users, jurusan, kelas, guru, siswa, jenis_pelanggaran,
                   input_prestasi, input_pelanggaran, manajemen_sanksi,
                   jadwal_mengajar, izin_guru, attendance_guru,
                   attendance_siswa, school_settings, now>>

UpdateJenisPrestasi(id, r) ==
    /\ id \in Ids(jenis_prestasi)
    /\ JenisPrestasiOk(Mutate(jenis_prestasi[id], r), id)
    /\ jenis_prestasi' = [jenis_prestasi EXCEPT ![id] = Mutate(jenis_prestasi[id], r)]
    /\ UNCHANGED <<users, jurusan, kelas, guru, siswa, jenis_pelanggaran,
                   input_prestasi, input_pelanggaran, manajemen_sanksi,
                   jadwal_mengajar, izin_guru, attendance_guru,
                   attendance_siswa, school_settings, now>>

(***************************************************************************)
(* jenis_pelanggaran                                                       *)
(***************************************************************************)
JenisPelanggaranOk(r, self) ==
    /\ NotNullDecimal(r.points_deducted)
    \* severity_level: int = Field(default = 1), any integer
    /\ r.severity_level \in Int

InsertJenisPelanggaran(r) ==
    /\ JenisPelanggaranOk(r, 0)
    /\ jenis_pelanggaran' = Append(jenis_pelanggaran, r)
    /\ UNCHANGED <<users, jurusan, kelas, guru, siswa, jenis_prestasi,
                   input_prestasi, input_pelanggaran, manajemen_sanksi,
                   jadwal_mengajar, izin_guru, attendance_guru,
                   attendance_siswa, school_settings, now>>

UpdateJenisPelanggaran(id, r) ==
    /\ id \in Ids(jenis_pelanggaran)
    /\ JenisPelanggaranOk(Mutate(jenis_pelanggaran[id], r), id)
    /\ jenis_pelanggaran' = [jenis_pelanggaran EXCEPT ![id] = Mutate(jenis_pelanggaran[id], r)]
    /\ UNCHANGED <<users, jurusan, kelas, guru, siswa, jenis_prestasi,
                   input_prestasi, input_pelanggaran, manajemen_sanksi,
                   jadwal_mengajar, izin_guru, attendance_guru,
                   attendance_siswa, school_settings, now>>

(***************************************************************************)
(* input_prestasi                                                          *)
(***************************************************************************)
InputPrestasiOk(r, self) ==
    /\ ForeignKey(r.siswa_id, siswa)
    /\ ForeignKey(r.jenis_prestasi_id, jenis_prestasi)
    /\ NotNullDecimal(r.points_awarded)

InsertInputPrestasi(r) ==
    /\ InputPrestasiOk(r, 0)
    /\ input_prestasi' = Append(input_prestasi, r)
    /\ UNCHANGED <<users, jurusan, kelas, guru, siswa, jenis_prestasi,
                   jenis_pelanggaran, input_pelanggaran, manajemen_sanksi,
                   jadwal_mengajar, izin_guru, attendance_guru,
                   attendance_siswa, school_settings, now>>

UpdateInputPrestasi(id, r) ==
    /\ id \in Ids(input_prestasi)
    /\ InputPrestasiOk(Mutate(input_prestasi[id], r), id)
    /\ input_prestasi' = [input_prestasi EXCEPT ![id] = Mutate(input_prestasi[id], r)]
    /\ UNCHANGED <<users, jurusan, kelas, guru, siswa, jenis_prestasi,
                   jenis_pelanggaran, input_pelanggaran, manajemen_sanksi,
                   jadwal_mengajar, izin_guru, attendance_guru,
                   attendance_siswa, school_settings, now>>

(***************************************************************************)
(* input_pelanggaran                                                       *)
(***************************************************************************)
InputPelanggaranOk(r, self) ==
    /\ ForeignKey(r.siswa_id, siswa)
    /\ ForeignKey(r.jenis_pelanggaran_id, jenis_pelanggaran)
    /\ NotNullDecimal(r.points_deducted)

InsertInputPelanggaran(r) ==
    /\ InputPelanggaranOk(r, 0)
    /\ input_pelanggaran' = Append(input_pelanggaran, r)
    /\ UNCHANGED <<users, jurusan, kelas, guru, siswa, jenis_prestasi,
                   jenis_pelanggaran, input_prestasi, manajemen_sanksi,
                   jadwal_mengajar, izin_guru, attendance_guru,
                   attendance_siswa, school_settings, now>>

UpdateInputPelanggaran(id, r) ==
    /\ id \in Ids(input_pelanggaran)
    /\ InputPelanggaranOk(Mutate(input_pelanggaran[id], r), id)
    /\ input_pelanggaran' = [input_pelanggaran EXCEPT ![id] = Mutate(input_pelanggaran[id], r)]
    /\ UNCHANGED <<users, jurusan, kelas, guru, siswa, jenis_prestasi,
                   jenis_pelanggaran, input_prestasi, manajemen_sanksi,
                   jadwal_mengajar, izin_guru, attendance_guru,
                   attendance_siswa, school_settings, now>>

(***************************************************************************)
(* manajemen_sanksi                                                        *)
(***************************************************************************)
\* ManajemenSanksiOk with violation_id declared without unique = True
ManajemenSanksiOkShared(r, self) ==
    /\ ForeignKey(r.siswa_id, siswa)
    /\ ForeignKey(r.violation_id, input_pelanggaran)
    /\ ForeignKey(r.initiated_by_id, guru)
    /\ r.status \in SanctionStatus

ManajemenSanksiOk(r, self) ==
    /\ ForeignKey(r.siswa_id, siswa)
    /\ ForeignKey(r.violation_id, input_pelanggaran)
    /\ Unique(manajemen_sanksi, "violation_id", r.violation_id, self)
    /\ ForeignKey(r.initiated_by_id, guru)
    /\ r.status \in SanctionStatus

InsertManajemenSanksi(r) ==
    /\ ManajemenSanksiOk(r, 0)
    /\ manajemen_sanksi' = Append(manajemen_sanksi, Stamped(r))
    /\ UNCHANGED <<users, jurusan, kelas, guru, siswa, jenis_prestasi,
                   jenis_pelanggaran, input_prestasi, input_pelanggaran,
                   jadwal_mengajar, izin_guru, attendance_guru,
                   attendance_siswa, school_settings, now>>

UpdateManajemenSanksi(id, r) ==
    /\ id \in Ids(manajemen_sanksi)
    /\ ManajemenSanksiOk(Mutate(manajemen_sanksi[id], r), id)
    /\ manajemen_sanksi' = [manajemen_sanksi EXCEPT ![id] = Mutate(manajemen_sanksi[id], r)]
    /\ UNCHANGED <<users, jurusan, kelas, guru, siswa, jenis_prestasi,
                   jenis_pelanggaran, input_prestasi, input_pelanggaran,
                   jadwal_mengajar, izin_guru, attendance_guru,
                   attendance_siswa, school_settings, now>>

\* InputPelanggaran.sanction: the rows whose violation_id is the violation's id
ViolationSanctions(v) == {i \in Ids(manajemen_sanksi) : manajemen_sanksi[i].violation_id = v}

(***************************************************************************)
(* jadwal_mengajar                                                         *)
(***************************************************************************)
JadwalMengajarOk(r, self) ==
    /\ ForeignKey(r.guru_id, guru)
    /\ ForeignKey(r.kelas_id, kelas)
    \* day_of_week: int = Field(), semester: int = Field(): any integer
    /\ r.day_of_week \in Int
    /\ r.semester \in Int

InsertJadwalMengajar(r) ==
    /\ JadwalMengajarOk(r, 0)
    /\ jadwal_mengajar' = Append(jadwal_mengajar, r)
    /\ UNCHANGED <<users, jurusan, kelas, guru, siswa, jenis_prestasi,
                   jenis_pelanggaran, input_prestasi, input_pelanggaran,
                   manajemen_sanksi, izin_guru, attendance_guru,
                   attendance_siswa, school_settings, now>>

UpdateJadwalMengajar(id, r) ==
    /\ id \in Ids(jadwal_mengajar)
    /\ JadwalMengajarOk(Mutate(jadwal_mengajar[id], r), id)
    /\ jadwal_mengajar' = [jadwal_mengajar EXCEPT ![id] = Mutate(jadwal_mengajar[id], r)]
    /\ UNCHANGED <<users, jurusan, kelas, guru, siswa, jenis_prestasi,
                   jenis_pelanggaran, input_prestasi, input_pelanggaran,
                   manajemen_sanksi, izin_guru, attendance_guru,
                   attendance_siswa, school_settings, now>>

(***************************************************************************)
(* izin_guru                                                               *)
(***************************************************************************)
IzinGuruOk(r, self) ==
    /\ ForeignKey(r.guru_id, guru)
    /\ r.status \in LeaveStatus

InsertIzinGuru(r) ==
    /\ IzinGuruOk(r, 0)
    /\ izin_guru' = Append(izin_guru, Stamped(r))
    /\ UNCHANGED <<users, jurusan, kelas, guru, siswa, jenis_prestasi,
                   jenis_pelanggaran, input_prestasi, input_pelanggaran,
                   manajemen_sanksi, jadwal_mengajar, attendance_guru,
                   attendance_siswa, school_settings, now>>

\* UpdateIzinGuru as a workflow would have it: only a pending request changes
UpdateIzinGuruWhilePending(id, r) ==
    /\ id \in Ids(izin_guru)
    /\ izin_guru[id].status = "pending"
    /\ IzinGuruOk(Mutate(izin_guru[id], r), id)
    /\ izin_guru' = [izin_guru EXCEPT ![id] = Mutate(izin_guru[id], r)]
    /\ UNCHANGED <<users, jurusan, kelas, guru, siswa, jenis_prestasi,
                   jenis_pelanggaran, input_prestasi, input_pelanggaran,
                   manajemen_sanksi, jadwal_mengajar, attendance_guru,
                   attendance_siswa, school_settings, now>>

UpdateIzinGuru(id, r) ==
    /\ id \in Ids(izin_guru)
    /\ IzinGuruOk(Mutate(izin_guru[id], r), id)
    /\ izin_guru' = [izin_guru EXCEPT ![id] = Mutate(izin_guru[id], r)]
    /\ UNCHANGED <<users, jurusan, kelas, guru, siswa, jenis_prestasi,
                   jenis_pelanggaran, input_prestasi, input_pelanggaran,
                   manajemen_sanksi, jadwal_mengajar, attendance_guru,
                   attendance_siswa, school_settings, now>>

(***************************************************************************)
(* attendance_guru                                                         *)
(***************************************************************************)
AttendanceGuruOk(r, self) ==
    /\ ForeignKey(r.guru_id, guru)
    /\ NotNull(r.date)
    /\ r.status \in AttendanceStatus

InsertAttendanceGuru(r) ==
    /\ AttendanceGuruOk(r, 0)
    /\ attendance_guru' = Append(attendance_guru, r)
    /\ UNCHANGED <<users, jurusan, kelas, guru, siswa, jenis_prestasi,
                   jenis_pelanggaran, input_prestasi, input_pelanggaran,
                   manajemen_sanksi, jadwal_mengajar, izin_guru,
                   attendance_siswa, school_settings, now>>

UpdateAttendanceGuru(id, r) ==
    /\ id \in Ids(attendance_guru)
    /\ AttendanceGuruOk(Mutate(attendance_guru[id], r), id)
    /\ attendance_guru' = [attendance_guru EXCEPT ![id] = Mutate(attendance_guru[id], r)]
    /\ UNCHANGED <<users, jurusan, kelas, guru, siswa, jenis_prestasi,
                   jenis_pelanggaran, input_prestasi, input_pelanggaran,
                   manajemen_sanksi, jadwal_mengajar, izin_guru,
                   attendance_siswa, school_settings, now>>

(***************************************************************************)
(* attendance_siswa                                                        *)
(***************************************************************************)
AttendanceSiswaOk(r, self) ==
    /\ ForeignKey(r.siswa_id, siswa)
    /\ NotNull(r.date)
    /\ r.status \in AttendanceStatus

InsertAttendanceSiswa(r) ==
    /\ AttendanceSiswaOk(r, 0)
    /\ attendance_siswa' = Append(attendance_siswa, r)
    /\ UNCHANGED <<users, jurusan, kelas, guru, siswa, jenis_prestasi,
                   jenis_pelanggaran, input_prestasi, input_pelanggaran,
                   manajemen_sanksi, jadwal_mengajar, izin_guru,
                   attendance_guru, school_settings, now>>

UpdateAttendanceSiswa(id, r) ==
    /\ id \in Ids(attendance_siswa)
    /\ AttendanceSiswaOk(Mutate(attendance_siswa[id], r), id)
    /\ attendance_siswa' = [attendance_siswa EXCEPT ![id] = Mutate(attendance_siswa[id], r)]
    /\ UNCHANGED <<users, jurusan, kelas, guru, siswa, jenis_prestasi,
                   jenis_pelanggaran, input_prestasi, input_pelanggaran,
                   manajemen_sanksi, jadwal_mengajar, izin_guru,
                   attendance_guru, school_settings, now>>

(***************************************************************************)
(* school_settings                                                         *)
(***************************************************************************)
SchoolSettingsOk(r, self) ==
    NotNull(r.academic_year)

InsertSchoolSettings(r) ==
    /\ SchoolSettingsOk(r, 0)
    /\ school_settings' = Append(school_settings, r @@ [updated_at |-> now])
    /\ UNCHANGED <<users, jurusan, kelas, guru, siswa, jenis_prestasi,
                   jenis_pelanggaran, input_prestasi, input_pelanggaran,
                   manajemen_sanksi, jadwal_mengajar, izin_guru,
                   attendance_guru, attendance_siswa, now>>

UpdateSchoolSettings(id, r) ==
    /\ id \in Ids(school_settings)
    /\ SchoolSettingsOk(Mutate(school_settings[id], r), id)
    /\ school_settings' = [school_settings EXCEPT ![id] = Mutate(school_settings[id], r)]
    /\ UNCHANGED <<users, jurusan, kelas, guru, siswa, jenis_prestasi,
                   jenis_pelanggaran, input_prestasi, input_pelanggaran,
                   manajemen_sanksi, jadwal_mengajar, izin_guru,
                   attendance_guru, attendance_siswa, now>>

(***************************************************************************)
(* The clock datetime.utcnow reads.                                        *)
(***************************************************************************)
Tick ==
    /\ now < MaxClock
    /\ now' = now + 1
    /\ UNCHANGED <<users, jurusan, kelas, guru, siswa, jenis_prestasi,
                   jenis_pelanggaran, input_prestasi, input_pelanggaran,
                   manajemen_sanksi, jadwal_mengajar, izin_guru,
                   attendance_guru, attendance_siswa, school_settings>>

(***************************************************************************)
(* The store after SQLModel.metadata.create_all: every table empty.        *)
(***************************************************************************)
Init ==
    /\ users = << >>
    /\ jurusan = << >>
    /\ kelas = << >>
    /\ guru = << >>
    /\ siswa = << >>
    /\ jenis_prestasi = << >>
    /\ jenis_pelanggaran = << >>
    /\ input_prestasi = << >>
    /\ input_pelanggaran = << >>
    /\ manajemen_sanksi = << >>
    /\ jadwal_mengajar = << >>
    /\ izin_guru = << >>
    /\ attendance_guru = << >>
    /\ attendance_siswa = << >>
    /\ school_settings = << >>
    /\ now = 0

TotalRows ==
    Len(users) + Len(jurusan) + Len(kelas) + Len(guru) + Len(siswa)
    + Len(jenis_prestasi) + Len(jenis_pelanggaran) + Len(input_prestasi)
    + Len(input_pelanggaran) + Len(manajemen_sanksi) + Len(jadwal_mengajar)
    + Len(izin_guru) + Len(attendance_guru) + Len(attendance_siswa)
    + Len(school_settings)

\* the exploration still has room for a row in the table
Room(table) == Len(table) < MaxRows /\ TotalRows < MaxTotalRows

\* foreign key values a client may send: NULL, ids in use, ids not in use
FkInputs == 0..(MaxRows + 1)

(***************************************************************************)
(* Sample column values.                                                   *)
(***************************************************************************)
Usernames == <<"budi", "siti", "agus", "dewi">>

Emails == <<"budi@sekolah.id", "siti@sekolah.id", "agus@sekolah.id", "dewi@sekolah.id">>

Roles == <<"siswa", "guru", "admin", "siswa">>

Account(k) == [username |-> Usernames[k], email |-> Emails[k], role |-> Roles[k]]

Codes == <<"SCI", "SOC", "LNG", "VOC">>

Department(k) == [name |-> IF k = 1 THEN "Science" ELSE "Other", code |-> Codes[k]]

Nips == <<"1980", "1981", "1982", "1983">>

Nises == <<"2001", "2002", "2003", "2004">>

Zero == Dec(0, 0)

(***************************************************************************)
(* Spec: every table, with sample rows that differ in their keys only.     *)
(***************************************************************************)
Next ==
    \/ Room(users) /\ InsertUser(Account(Len(users) + 1))
    \/ Room(jurusan) /\ InsertJurusan(Department(Len(jurusan) + 1))
    \/ Room(kelas) /\ \E j, w \in FkInputs :
          InsertKelas([name |-> "XII-SCI-1", jurusan_id |-> j, wali_kelas_id |-> w])
    \/ \E id \in Ids(kelas), j, w \in FkInputs :
          UpdateKelas(id, [jurusan_id |-> j, wali_kelas_id |-> w])
    \/ Room(guru) /\ \E u \in FkInputs :
          InsertGuru([user_id |-> u, nip |-> Nips[Len(guru) + 1]])
    \/ \E id \in Ids(guru), u \in FkInputs : UpdateGuru(id, [user_id |-> u])
    \/ Room(siswa) /\ \E u, k \in FkInputs, p \in {Zero, << >>} :
          InsertSiswa([user_id |-> u, nis |-> Nises[Len(siswa) + 1],
                       nisn |-> Nises[Len(siswa) + 1], kelas_id |-> k,
                       current_points |-> p])
    \/ \E id \in Ids(siswa), u, k \in FkInputs :
          UpdateSiswa(id, [user_id |-> u, kelas_id |-> k])
    \/ Room(jenis_prestasi) /\ InsertJenisPrestasi([points |-> Dec(10, 0)])
    \/ Room(jenis_pelanggaran) /\
          InsertJenisPelanggaran([points_deducted |-> Dec(5, 0), severity_level |-> 1])
    \/ Room(input_prestasi) /\ \E s, t \in FkInputs :
          InsertInputPrestasi([siswa_id |-> s, jenis_prestasi_id |-> t,
                               points_awarded |-> Dec(10, 0)])
    \/ \E id \in Ids(input_prestasi), s, t \in FkInputs :
          UpdateInputPrestasi(id, [siswa_id |-> s, jenis_prestasi_id |-> t])
    \/ Room(input_pelanggaran) /\ \E s, t \in FkInputs :
          InsertInputPelanggaran([siswa_id |-> s, jenis_pelanggaran_id |-> t,
                                  points_deducted |-> Dec(5, 0)])
    \/ \E id \in Ids(input_pelanggaran), s, t \in FkInputs :
          UpdateInputPelanggaran(id, [siswa_id |-> s, jenis_pelanggaran_id |-> t])
    \/ Room(manajemen_sanksi) /\ \E s, v, g \in FkInputs :
          InsertManajemenSanksi([siswa_id |-> s, violation_id |-> v,
                                 initiated_by_id |-> g, status |-> "pending"])
    \/ \E id \in Ids(manajemen_sanksi), s, v, g \in FkInputs :
          UpdateManajemenSanksi(id, [siswa_id |-> s, violation_id |-> v,
                                     initiated_by_id |-> g])
    \/ Room(jadwal_mengajar) /\ \E g, k \in FkInputs :
          InsertJadwalMengajar([guru_id |-> g, kelas_id |-> k,
                                day_of_week |-> 1, semester |-> 1])
    \/ \E id \in Ids(jadwal_mengajar), g, k \in FkInputs :
          UpdateJadwalMengajar(id, [guru_id |-> g, kelas_id |-> k])
    \/ Room(izin_guru) /\ \E g \in FkInputs :
          InsertIzinGuru([guru_id |-> g, status |-> "pending",
                          approved_by |-> "None", rejection_reason |-> "None"])
    \/ \E id \in Ids(izin_guru), g \in FkInputs : UpdateIzinGuru(id, [guru_id |-> g])
    \/ Room(attendance_guru) /\ \E g \in FkInputs :
          InsertAttendanceGuru([guru_id |-> g, date |-> "2024-01-15",
                                status |-> "present",
                                location_lat |-> << >>, location_lng |-> << >>])
    \/ \E id \in Ids(attendance_guru), g \in FkInputs :
          UpdateAttendanceGuru(id, [guru_id |-> g])
    \/ Room(attendance_siswa) /\ \E s \in FkInputs :
          InsertAttendanceSiswa([siswa_id |-> s, date |-> "2024-01-15",
                                 status |-> "present"])
    \/ \E id \in Ids(attendance_siswa), s \in FkInputs :
          UpdateAttendanceSiswa(id, [siswa_id |-> s])

Spec == Init /\ [][Next]_vars

SanksiFor(s, v, g) ==
    [siswa_id |-> s, violation_id |-> v, initiated_by_id |-> g, status |-> "pending"]

(***************************************************************************)
(* C2: a Violation record is referenced by at most one Sanction in every   *)
(* reachable state: while a violation has no sanction, creating one for it *)
(* (for an existing student and an existing initiating teacher) succeeds,  *)
(* and once it has one, every further attempt to create a sanction with    *)
(* that violation_id is rejected.                                          *)
(***************************************************************************)
AtMostOneSanctionPerViolation ==
    \A v \in Ids(input_pelanggaran) :
        /\ Cardinality(ViolationSanctions(v)) <= 1
        /\ \A s \in Ids(siswa), g \in Ids(guru) :
              ENABLED InsertManajemenSanksi(SanksiFor(s, v, g))
                  <=> ViolationSanctions(v) = {}

\* a violation has its sanction and a second one could still be attempted
SanctionedViolation ==
    \E v \in Ids(input_pelanggaran) :
        /\ Cardinality(ViolationSanctions(v)) = 1
        /\ Room(manajemen_sanksi)

Refers(table, col, parent) ==
    \A i \in Ids(table) : table[i][col] \in Ids(parent)

RefersOrNull(table, col, parent) ==
    \A i \in Ids(table) : table[i][col] = 0 \/ table[i][col] \in Ids(parent)

\* ids that identify no row of the table
Dangling(table) == {id \in FkInputs : id # 0 /\ id \notin Ids(table)}

DanglingRejected ==
    /\ \A j \in Dangling(jurusan), w \in FkInputs :
          ~ENABLED InsertKelas([name |-> "XII-SCI-1", jurusan_id |-> j, wali_kelas_id |-> w])
    /\ \A j \in FkInputs, w \in Dangling(guru) :
          ~ENABLED InsertKelas([name |-> "XII-SCI-1", jurusan_id |-> j, wali_kelas_id |-> w])
    /\ \A u \in Dangling(users) :
          /\ ~ENABLED InsertGuru([user_id |-> u, nip |-> Nips[Len(guru) + 1]])
          /\ \A k \in FkInputs :
                ~ENABLED InsertSiswa([user_id |-> u, nis |-> Nises[Len(siswa) + 1],
                                      nisn |-> Nises[Len(siswa) + 1], kelas_id |-> k,
                                      current_points |-> Zero])
    /\ \A u \in FkInputs, k \in Dangling(kelas) :
          ~ENABLED InsertSiswa([user_id |-> u, nis |-> Nises[Len(siswa) + 1],
                                nisn |-> Nises[Len(siswa) + 1], kelas_id |-> k,
                                current_points |-> Zero])
    /\ \A s, t \in FkInputs :
          /\ (s \in Dangling(siswa) \/ t \in Dangling(jenis_prestasi)) =>
                ~ENABLED InsertInputPrestasi([siswa_id |-> s, jenis_prestasi_id |-> t,
                                              points_awarded |-> Dec(10, 0)])
          /\ (s \in Dangling(siswa) \/ t \in Dangling(jenis_pelanggaran)) =>
                ~ENABLED InsertInputPelanggaran([siswa_id |-> s, jenis_pelanggaran_id |-> t,
                                                 points_deducted |-> Dec(5, 0)])
    /\ \A s, v, g \in FkInputs :
          (s \in Dangling(siswa) \/ v \in Dangling(input_pelanggaran) \/ g \in Dangling(guru)) =>
              ~ENABLED InsertManajemenSanksi(SanksiFor(s, v, g))
    /\ \A g, k \in FkInputs :
          (g \in Dangling(guru) \/ k \in Dangling(kelas)) =>
              ~ENABLED InsertJadwalMengajar([guru_id |-> g, kelas_id |-> k,
                                             day_of_week |-> 1, semester |-> 1])
    /\ \A g \in Dangling(guru) :
          /\ ~ENABLED InsertIzinGuru([guru_id |-> g, status |-> "pending",
                                      approved_by |-> "None", rejection_reason |-> "None"])
          /\ ~ENABLED InsertAttendanceGuru([guru_id |-> g, date |-> "2024-01-15",
                                            status |-> "present",
                                            location_lat |-> << >>, location_lng |-> << >>])
    /\ \A s \in Dangling(siswa) :
          ~ENABLED InsertAttendanceSiswa([siswa_id |-> s, date |-> "2024-01-15",
                                          status |-> "present"])

(***************************************************************************)
(* C4: referential integrity.  In every reachable state every non-null     *)
(* foreign key identifies a row of the table it references; an insert that *)
(* carries the id of no row in a foreign key column is rejected; and the   *)
(* department a class resolves to is the row whose id the class carries.   *)
(***************************************************************************)
ReferentialIntegrity ==
    /\ Refers(kelas, "jurusan_id", jurusan)
    /\ RefersOrNull(kelas, "wali_kelas_id", guru)
    /\ Refers(guru, "user_id", users)
    /\ Refers(siswa, "user_id", users)
    /\ RefersOrNull(siswa, "kelas_id", kelas)
    /\ Refers(input_prestasi, "siswa_id", siswa)
    /\ Refers(input_prestasi, "jenis_prestasi_id", jenis_prestasi)
    /\ Refers(input_pelanggaran, "siswa_id", siswa)
    /\ Refers(input_pelanggaran, "jenis_pelanggaran_id", jenis_pelanggaran)
    /\ Refers(manajemen_sanksi, "siswa_id", siswa)
    /\ Refers(manajemen_sanksi, "violation_id", input_pelanggaran)
    /\ Refers(manajemen_sanksi, "initiated_by_id", guru)
    /\ Refers(jadwal_mengajar, "guru_id", guru)
    /\ Refers(jadwal_mengajar, "kelas_id", kelas)
    /\ Refers(izin_guru, "guru_id", guru)
    /\ Refers(attendance_guru, "guru_id", guru)
    /\ Refers(attendance_siswa, "siswa_id", siswa)
    /\ \A k \in Ids(kelas) : KelasJurusan(k) = Department(kelas[k].jurusan_id)
    /\ DanglingRejected

\* a class of the Science department with a homeroom teacher and a student
ClassOfScience ==
    \E k \in Ids(kelas) :
        /\ KelasJurusan(k).name = "Science"
        /\ kelas[k].wali_kelas_id # 0
        /\ \E s \in Ids(siswa) : siswa[s].kelas_id = k

(***************************************************************************)
(* C5: attendance holds one record per person per date: no two             *)
(* attendance_guru rows share (guru_id, date) and no two attendance_siswa  *)
(* rows share (siswa_id, date).                                            *)
(***************************************************************************)
OneAttendancePerPersonPerDate ==
    /\ \A i, j \in Ids(attendance_guru) :
          (i # j) => ~(/\ attendance_guru[i].guru_id = attendance_guru[j].guru_id
                       /\ attendance_guru[i].date = attendance_guru[j].date)
    /\ \A i, j \in Ids(attendance_siswa) :
          (i # j) => ~(/\ attendance_siswa[i].siswa_id = attendance_siswa[j].siswa_id
                       /\ attendance_siswa[i].date = attendance_siswa[j].date)

(***************************************************************************)
(* SpecAccounts: accounts, departments and profiles, with clashing values  *)
(* in every unique column.                                                 *)
(***************************************************************************)
NameInputs == {Usernames[1], Usernames[2]}

EmailInputs == {Emails[1], Emails[2]}

CodeInputs == {Codes[1], Codes[2]}

NipInputs == {Nips[1], Nips[2]}

NisInputs == {Nises[1], Nises[2]}

NisnInputs == {Nises[3], Nises[4]}

\* the values a client may send in a column: those of S, or NULL
OrNull(S) == S \cup {"None"}

SiswaOf(u, n, m) ==
    [user_id |-> u, nis |-> n, nisn |-> m, kelas_id |-> 0, current_points |-> Zero]

NextAccounts ==
    \/ Room(users) /\ \E n \in OrNull(NameInputs), e \in OrNull(EmailInputs), ro \in UserRole :
          InsertUser([username |-> n, email |-> e, role |-> ro])
    \/ \E id \in Ids(users), n \in OrNull(NameInputs) : UpdateUser(id, [username |-> n])
    \/ \E id \in Ids(users), e \in OrNull(EmailInputs) : UpdateUser(id, [email |-> e])
    \/ Room(jurusan) /\ \E c \in OrNull(CodeInputs) :
          InsertJurusan([name |-> "Science", code |-> c])
    \/ \E id \in Ids(jurusan), c \in OrNull(CodeInputs) : UpdateJurusan(id, [code |-> c])
    \/ Room(guru) /\ \E u \in FkInputs, n \in OrNull(NipInputs) :
          InsertGuru([user_id |-> u, nip |-> n])
    \/ \E id \in Ids(guru), n \in OrNull(NipInputs) : UpdateGuru(id, [nip |-> n])
    \/ \E id \in Ids(guru), u \in FkInputs : UpdateGuru(id, [user_id |-> u])
    \/ Room(siswa) /\ \E u \in FkInputs, n \in OrNull(NisInputs), m \in OrNull(NisnInputs) :
          InsertSiswa(SiswaOf(u, n, m))
    \/ \E id \in Ids(siswa), n \in OrNull(NisInputs) : UpdateSiswa(id, [nis |-> n])
    \/ \E id \in Ids(siswa), m \in OrNull(NisnInputs) : UpdateSiswa(id, [nisn |-> m])
    \/ \E id \in Ids(siswa), u \in FkInputs : UpdateSiswa(id, [user_id |-> u])

SpecAccounts == Init /\ [][NextAccounts]_vars

Distinct(table, col) ==
    \A i, j \in Ids(table) : i # j => table[i][col] # table[j][col]

DuplicateRejected ==
    /\ \A i \in Ids(users), n \in NameInputs, e \in EmailInputs, ro \in UserRole :
          /\ ~ENABLED InsertUser([username |-> users[i].username, email |-> e, role |-> ro])
          /\ ~ENABLED InsertUser([username |-> n, email |-> users[i].email, role |-> ro])
    /\ \A i \in Ids(jurusan) :
          ~ENABLED InsertJurusan([name |-> "Other", code |-> jurusan[i].code])
    /\ \A i \in Ids(guru), u \in FkInputs :
          ~ENABLED InsertGuru([user_id |-> u, nip |-> guru[i].nip])
    /\ \A i \in Ids(siswa), u \in FkInputs, n \in NisInputs, m \in NisnInputs :
          /\ ~ENABLED InsertSiswa(SiswaOf(u, siswa[i].nis, m))
          /\ ~ENABLED InsertSiswa(SiswaOf(u, n, siswa[i].nisn))

(***************************************************************************)
(* C1: for each of the unique columns users.username, users.email,         *)
(* jurusan.code, guru.nip, siswa.nis and siswa.nisn, no two rows of the    *)
(* table share a value after any sequence of inserts and updates, and an   *)
(* insert whose value for the column is that of a stored row is rejected.  *)
(***************************************************************************)
UniqueColumns ==
    /\ Distinct(users, "username")
    /\ Distinct(users, "email")
    /\ Distinct(jurusan, "code")
    /\ Distinct(guru, "nip")
    /\ Distinct(siswa, "nis")
    /\ Distinct(siswa, "nisn")
    /\ DuplicateRejected

\* every table with a unique column holds a row and has room for a duplicate
RowsToDuplicate ==
    /\ Len(users) = 1 /\ Len(jurusan) = 1 /\ Len(guru) = 1 /\ Len(siswa) = 1
    /\ Room(users) /\ Room(jurusan) /\ Room(guru) /\ Room(siswa)

GuruProfiles(u) == {g \in Ids(guru) : guru[g].user_id = u}

SiswaProfiles(u) == {t \in Ids(siswa) : siswa[t].user_id = u}

(***************************************************************************)
(* C3: in every reachable state each user is referenced by at most one     *)
(* guru row and by at most one siswa row; creating a second profile of a   *)
(* kind for the user of an existing profile of that kind is rejected.      *)
(***************************************************************************)
AtMostOneProfilePerKind ==
    \A u \in Ids(users) :
        /\ Cardinality(GuruProfiles(u)) <= 1
        /\ Cardinality(SiswaProfiles(u)) <= 1
        /\ GuruProfiles(u) # {} =>
              \A n \in NipInputs : ~ENABLED InsertGuru([user_id |-> u, nip |-> n])
        /\ SiswaProfiles(u) # {} =>
              \A n \in NisInputs, m \in NisnInputs : ~ENABLED InsertSiswa(SiswaOf(u, n, m))

\* a user holds a teacher profile, another a student profile, and a second
\* profile of either kind could still be attempted
ProfiledUsers ==
    /\ \E u \in Ids(users) : GuruProfiles(u) # {}
    /\ \E u \in Ids(users) : SiswaProfiles(u) # {}
    /\ Room(guru) /\ Room(siswa)

(***************************************************************************)
(* C7: the schema does not tie profiles to the role.  Whatever the role of *)
(* a user (admin, guru, siswa), creating a teacher profile for it succeeds *)
(* while it has none and the employee id is free, and creating a student   *)
(* profile for it succeeds while it has none and the student ids are free; *)
(* holding one kind of profile does not bar the other.                     *)
(***************************************************************************)
ProfilesIgnoreRole ==
    \A u \in Ids(users) :
        /\ \A n \in NipInputs :
              ENABLED InsertGuru([user_id |-> u, nip |-> n])
                  <=> (GuruProfiles(u) = {} /\ Unique(guru, "nip", n, 0))
        /\ \A n \in NisInputs, m \in NisnInputs :
              ENABLED InsertSiswa(SiswaOf(u, n, m))
                  <=> (/\ SiswaProfiles(u) = {}
                       /\ Unique(siswa, "nis", n, 0)
                       /\ Unique(siswa, "nisn", m, 0))

\* an admin account and a teacher account each hold both kinds of profile
BothProfilesWhateverRole ==
    \E a, b \in Ids(users) :
        /\ users[a].role = "admin" /\ users[b].role = "guru"
        /\ GuruProfiles(a) # {} /\ SiswaProfiles(a) # {}
        /\ GuruProfiles(b) # {} /\ SiswaProfiles(b) # {}

(***************************************************************************)
(* SpecSchedule: teaching schedules and violation types, with integers     *)
(* inside and outside the ranges the comments of the columns give.         *)
(***************************************************************************)
DayInputs == {0, 1, 7, 8}

SemesterInputs == {0, 1, 2, 3}

SeverityInputs == {0, 1, 5, 6}

NextSchedule ==
    \/ Room(users) /\ InsertUser(Account(Len(users) + 1))
    \/ Room(guru) /\ \E u \in FkInputs :
          InsertGuru([user_id |-> u, nip |-> Nips[Len(guru) + 1]])
    \/ Room(jurusan) /\ InsertJurusan(Department(Len(jurusan) + 1))
    \/ Room(kelas) /\ \E j \in FkInputs :
          InsertKelas([name |-> "XII-SCI-1", jurusan_id |-> j, wali_kelas_id |-> 0])
    \/ Room(jadwal_mengajar) /\ \E g, k \in FkInputs, d \in DayInputs, m \in SemesterInputs :
          InsertJadwalMengajar([guru_id |-> g, kelas_id |-> k,
                                day_of_week |-> d, semester |-> m])
    \/ \E id \in Ids(jadwal_mengajar), d \in DayInputs :
          UpdateJadwalMengajar(id, [day_of_week |-> d])
    \/ \E id \in Ids(jadwal_mengajar), m \in SemesterInputs :
          UpdateJadwalMengajar(id, [semester |-> m])
    \/ Room(jenis_pelanggaran) /\ \E v \in SeverityInputs :
          InsertJenisPelanggaran([points_deducted |-> Dec(5, 0), severity_level |-> v])
    \/ \E id \in Ids(jenis_pelanggaran), v \in SeverityInputs :
          UpdateJenisPelanggaran(id, [severity_level |-> v])

SpecSchedule == Init /\ [][NextSchedule]_vars

(***************************************************************************)
(* C6: bounded integer fields stay in their stated ranges in every stored  *)
(* row: jadwal_mengajar.day_of_week in 1..7, jadwal_mengajar.semester 1 or *)
(* 2, jenis_pelanggaran.severity_level in 1..5.                            *)
(***************************************************************************)
BoundedFieldsInRange ==
    /\ \A i \in Ids(jadwal_mengajar) :
          /\ jadwal_mengajar[i].day_of_week \in 1..7
          /\ jadwal_mengajar[i].semester \in {1, 2}
    /\ \A i \in Ids(jenis_pelanggaran) :
          jenis_pelanggaran[i].severity_level \in 1..5

(***************************************************************************)
(* SpecStatus: sanctions and leave requests, with every status value and   *)
(* one that is no member of the enumeration.                               *)
(***************************************************************************)
SanctionStatusInputs == SanctionStatus \cup {"cancelled"}

LeaveStatusInputs == LeaveStatus \cup {"cancelled"}

ApproverInputs == {"None", "Kepala Sekolah"}

ReasonInputs == {"None", "jadwal ujian"}

NextStatus ==
    \/ Room(users) /\ InsertUser(Account(Len(users) + 1))
    \/ Room(guru) /\ InsertGuru([user_id |-> Len(users), nip |-> Nips[Len(guru) + 1]])
    \/ Room(siswa) /\
          InsertSiswa([user_id |-> Len(users), nis |-> Nises[Len(siswa) + 1],
                       nisn |-> Nises[Len(siswa) + 1], kelas_id |-> 0,
                       current_points |-> Zero])
    \/ Room(jenis_pelanggaran) /\
          InsertJenisPelanggaran([points_deducted |-> Dec(5, 0), severity_level |-> 1])
    \/ Room(input_pelanggaran) /\
          InsertInputPelanggaran([siswa_id |-> Len(siswa),
                                  jenis_pelanggaran_id |-> Len(jenis_pelanggaran),
                                  points_deducted |-> Dec(5, 0)])
    \/ Room(manajemen_sanksi) /\ \E st \in SanctionStatusInputs :
          InsertManajemenSanksi([siswa_id |-> Len(siswa),
                                 violation_id |-> Len(input_pelanggaran),
                                 initiated_by_id |-> Len(guru), status |-> st])
    \/ \E id \in Ids(manajemen_sanksi), st \in SanctionStatusInputs :
          UpdateManajemenSanksi(id, [status |-> st])
    \/ Room(izin_guru) /\ \E st \in LeaveStatusInputs :
          InsertIzinGuru([guru_id |-> Len(guru), status |-> st,
                          approved_by |-> "None", rejection_reason |-> "None"])
    \/ \E id \in Ids(izin_guru), st \in LeaveStatusInputs :
          UpdateIzinGuru(id, [status |-> st])
    \/ \E id \in Ids(izin_guru), a \in ApproverInputs :
          UpdateIzinGuru(id, [approved_by |-> a])
    \/ \E id \in Ids(izin_guru), re \in ReasonInputs :
          UpdateIzinGuru(id, [rejection_reason |-> re])

SpecStatus == Init /\ [][NextStatus]_vars

(***************************************************************************)
(* C9: sanction status and leave status are free-form.  For every stored   *)
(* sanction an update of its status to any member of SanctionStatus is     *)
(* accepted, whatever its current status; for every stored leave request   *)
(* an update of its status to any member of LeaveStatus is accepted,       *)
(* whatever its current status, approver and rejection reason; and an      *)
(* update to a value outside the enumeration is rejected, so that the      *)
(* status is always a member of its enumeration.                           *)
(***************************************************************************)
StatusFreeForm ==
    /\ \A i \in Ids(manajemen_sanksi) :
          /\ manajemen_sanksi[i].status \in SanctionStatus
          /\ \A st \in SanctionStatusInputs :
                ENABLED UpdateManajemenSanksi(i, [status |-> st]) <=> st \in SanctionStatus
    /\ \A i \in Ids(izin_guru) :
          /\ izin_guru[i].status \in LeaveStatus
          /\ \A st \in LeaveStatusInputs :
                ENABLED UpdateIzinGuru(i, [status |-> st]) <=> st \in LeaveStatus

\* a leave request rejected with neither reason nor approver, beside a
\* sanction that has left pending
RejectedWithoutReason ==
    /\ \E i \in Ids(izin_guru) :
          /\ izin_guru[i].status = "rejected"
          /\ izin_guru[i].rejection_reason = "None"
          /\ izin_guru[i].approved_by = "None"
    /\ \E i \in Ids(manajemen_sanksi) : manajemen_sanksi[i].status = "not_sanctioned"

(***************************************************************************)
(* SpecClock: the tables that carry updated_at, with time passing between  *)
(* the operations.                                                         *)
(***************************************************************************)
NextClock ==
    \/ Tick
    \/ Room(users) /\ InsertUser(Account(Len(users) + 1))
    \/ \E id \in Ids(users) : UpdateUser(id, [role |-> "admin"])
    \/ Room(guru) /\ InsertGuru([user_id |-> Len(users), nip |-> Nips[Len(guru) + 1]])
    \/ \E id \in Ids(guru) : UpdateGuru(id, [nip |-> Nips[4]])
    \/ Room(siswa) /\
          InsertSiswa([user_id |-> Len(users), nis |-> Nises[Len(siswa) + 1],
                       nisn |-> Nises[Len(siswa) + 1], kelas_id |-> 0,
                       current_points |-> Zero])
    \/ \E id \in Ids(siswa) : UpdateSiswa(id, [current_points |-> Dec(5, 0)])
    \/ Room(jenis_pelanggaran) /\
          InsertJenisPelanggaran([points_deducted |-> Dec(5, 0), severity_level |-> 1])
    \/ Room(input_pelanggaran) /\
          InsertInputPelanggaran([siswa_id |-> Len(siswa),
                                  jenis_pelanggaran_id |-> Len(jenis_pelanggaran),
                                  points_deducted |-> Dec(5, 0)])
    \/ Room(manajemen_sanksi) /\
          InsertManajemenSanksi([siswa_id |-> Len(siswa),
                                 violation_id |-> Len(input_pelanggaran),
                                 initiated_by_id |-> Len(guru), status |-> "pending"])
    \/ \E id \in Ids(manajemen_sanksi) :
          UpdateManajemenSanksi(id, [status |-> "sanctioned"])
    \/ Room(izin_guru) /\
          InsertIzinGuru([guru_id |-> Len(guru), status |-> "pending",
                          approved_by |-> "None", rejection_reason |-> "None"])
    \/ \E id \in Ids(izin_guru) : UpdateIzinGuru(id, [status |-> "approved"])
    \/ Room(school_settings) /\
          InsertSchoolSettings([academic_year |-> "2023/2024",
                                geofence_lat |-> << >>, geofence_lng |-> << >>])
    \/ \E id \in Ids(school_settings) :
          UpdateSchoolSettings(id, [academic_year |-> "2024/2025"])

SpecClock == Init /\ [][NextClock]_vars

Refreshed(old, new) ==
    \A i \in Ids(old) :
        /\ new[i] # old[i] => new[i].updated_at = now
        /\ "created_at" \in DOMAIN old[i] => new[i].created_at = old[i].created_at

(***************************************************************************)
(* C10: for every table that has updated_at (users, guru, siswa,           *)
(* manajemen_sanksi, izin_guru, school_settings), a step that changes      *)
(* another column of a stored row leaves that row's updated_at at the time *)
(* of the step, and never changes a created_at.                            *)
(***************************************************************************)
UpdatedAtRefreshed ==
    [][ /\ Refreshed(users, users')
        /\ Refreshed(guru, guru')
        /\ Refreshed(siswa, siswa')
        /\ Refreshed(manajemen_sanksi, manajemen_sanksi')
        /\ Refreshed(izin_guru, izin_guru')
        /\ Refreshed(school_settings, school_settings') ]_vars

=============================================================================
